---- MODULE Spec2Model ----
(***************************************************************************)
(* A model of sushichef.py, the Microsoft Digital Literacy sushi chef.     *)
(*                                                                         *)
(*   Spec         one chef process: pre_run (crawl, make_request,          *)
(*                download_courses) and construct_channel, re-run once on  *)
(*                the same chefdata directory                              *)
(*   SpecManifest get_course: reading imsmanifest.xml, up to TopicNode     *)
(*   SpecCourse   get_course: the walk over pages.xml                      *)
(*   SpecQuiz     get_quiz_from_objective applied to bounded objectives    *)
(*   SpecTeacher  get_teacher_resources, called twice on the same disk     *)
(***************************************************************************)
EXTENDS Integers, Sequences, FiniteSets, TLC

\* ------------------------------------------------------------------ bounds
MaxLessons == 2
MaxTopics == 2
MaxResources == 3
MaxQuizSize == 5
MaxElements == 7

\* -------------------------------------------------------- program constants
max_retries == 5

\* ----------------------------------------------------------------- helpers
SeqsUpTo(S, n) == UNION {[1..k -> S] : k \in 0..n}

Range(s) == {s[i] : i \in 1..Len(s)}

RECURSIVE DictKeys(_)
\* The keys of a dict filled by inserting s[1], s[2], ... in turn: a key keeps the
\* place of its first insertion.
DictKeys(s) ==
  IF s = <<>> THEN <<>>
  ELSE LET front == DictKeys(SubSeq(s, 1, Len(s) - 1))
           last == s[Len(s)]
       IN IF last \in Range(front) THEN front ELSE Append(front, last)

RECURSIVE SelectNot(_, _)
SelectNot(s, bad) ==
  IF s = <<>> THEN <<>>
  ELSE IF s[1] \in bad THEN SelectNot(Tail(s), bad)
       ELSE <<s[1]>> \o SelectNot(Tail(s), bad)

VARIABLES
  \* ---- the chef process
  pc,            \* where the process is
  error,         \* the exception that ended it, "none" while it runs
  run,           \* "first" | "second": which process this is on the chefdata dir
  site,          \* the course index page as served
  retry_count,   \* make_request: retry_count
  attempts,      \* make_request: calls of SESSION.request so far
  sleeps,        \* make_request: the time.sleep arguments so far
  status,        \* make_request: status_code of the response, 0 before one
  mr_result,     \* make_request: "pending" | "None" | "response"
  has_lessons,   \* self.lessons is set
  has_videos,    \* self.zipped_videos is set
  lessons,       \* list(self.lessons): keys in insertion order
  zipped_videos, \* list(self.zipped_videos)
  files,         \* chefdata/<name>.zip: name -> "complete" | "truncated"
  extracted,     \* chefdata/<name> directories
  fetches,       \* names fetched by download_courses in this process
  dl_pos,        \* download_courses: index into the current loop
  first_done,    \* download_courses completed in the first process
  count,         \* construct_channel: enumerate index
  children,      \* channel.children
  \* ---- get_teacher_resources
  t_pc,          \* "start" | "walk" | "done" | "exit" | "crashed"
  t_call,        \* "first" | "second" call on the same disk
  t_dir,         \* the files os.walk yields, in walk order, each by its base name
  t_pdfs,        \* base names b with chefdata/teacher_files/<b>.pdf on disk
  t_start_pdfs,  \* t_pdfs when the current call started
  t_pos,         \* index of the file the walk examines next
  t_pdf_files,   \* pdf_files
  t_converted,   \* base names libreoffice wrote a PDF for in the current call
  t_nodes,       \* topic.children: the PDF of each document node
  \* ---- get_course: the manifest
  m_pc,          \* "read" | "built" | "raised"
  m_manifest,    \* chefdata/imsmanifest.xml
  m_error,       \* the exception raised, "none" otherwise
  m_topic,       \* the TopicNode built: title and description
  \* ---- get_quiz_from_objective
  q_pc,          \* "call" | "returned" | "raised"
  q_questions,   \* the question children of the objective
  q_exercises,   \* the list returned
  \* ---- get_course: the walk over pages.xml
  c_pc,          \* "level0" | "level1" | "done" | "raised"
  c_error,       \* the exception raised, "none" otherwise
  c_objectives,  \* list(objectives_parent.iterchildren())
  c_mp4s,        \* list_of_mp4s
  c_budget,      \* elements of pages.xml not read yet
  c_doc,         \* the level0 elements read so far: name and number of children
  c_subtopics,   \* topic.children
  c_left,        \* level1 elements of the current level0 still to handle
  c_last         \* the level1 element handled last

runVars == <<pc, error, run, site, retry_count, attempts, sleeps, status, mr_result,
             has_lessons, has_videos, lessons, zipped_videos, files, extracted,
             fetches, dl_pos, first_done, count, children>>

teacherVars == <<t_pc, t_call, t_dir, t_pdfs, t_start_pdfs, t_pos, t_pdf_files,
                 t_converted, t_nodes>>

manifestVars == <<m_pc, m_manifest, m_error, m_topic>>

quizVars == <<q_pc, q_questions, q_exercises>>

courseVars == <<c_pc, c_error, c_objectives, c_mp4s, c_budget, c_doc, c_subtopics,
                c_left, c_last>>

vars == <<runVars, teacherVars, manifestVars, quizVars, courseVars>>

\* What an action of the chef process leaves alone.
RunFrame == UNCHANGED <<teacherVars, manifestVars, quizVars, courseVars>>

\* What an action of get_teacher_resources leaves alone.
TeacherFrame == UNCHANGED <<runVars, manifestVars, quizVars, courseVars>>

\* What the manifest step of get_course leaves alone.
ManifestFrame == UNCHANGED <<runVars, teacherVars, quizVars, courseVars>>

\* What get_quiz_from_objective leaves alone.
QuizFrame == UNCHANGED <<runVars, teacherVars, manifestVars, courseVars>>

\* What the walk of get_course leaves alone.
CourseFrame == UNCHANGED <<runVars, teacherVars, manifestVars, quizVars>>

\* --------------------------------------------------------------- the site
LessonNames == {"Lesson A", "Lesson B"}
VideoNames == {"Videos A", "Videos B"}
TranscriptNames == {"Transcript files"}    \* texts holding "Transcript"

Sites ==
  [anchors : {"both"},
   lesson_items : SeqsUpTo(LessonNames, MaxLessons),
   topic_items : SeqsUpTo(VideoNames \cup TranscriptNames, MaxTopics)]
  \cup
  [anchors : {"no_scorm", "no_course"},
   lesson_items : {<<>>, <<"Lesson A">>},
   topic_items : {<<>>}]

\* ----------------------------------------------------------- make_request
GiveUpLate(rc) == rc > max_retries

GiveUp(rc) == rc >= max_retries

\* One pass of the while loop: a connection error or read timeout.
RequestError ==
  /\ RunFrame
  /\ pc = "request"
  /\ retry_count' = retry_count + 1
  /\ attempts' = attempts + 1
  /\ sleeps' = Append(sleeps, (retry_count + 1) * 1)
  /\ IF GiveUp(retry_count + 1)
       THEN /\ mr_result' = "None"
            /\ pc' = "crawl_page"
       ELSE /\ mr_result' = mr_result
            /\ pc' = pc
  /\ UNCHANGED <<error, run, site, status, has_lessons, has_videos, lessons,
                 zipped_videos, files, extracted, fetches, dl_pos, first_done,
                 count, children>>

\* One pass of the while loop: the request completes, and the status check after it.
RequestResponse ==
  /\ RunFrame
  /\ pc = "request"
  /\ \E code \in {200, 404, 503} :
       /\ status' = code
       /\ mr_result' = IF code # 200 THEN "None" ELSE "response"
  /\ attempts' = attempts + 1
  /\ pc' = "crawl_page"
  /\ UNCHANGED <<error, run, site, retry_count, sleeps, has_lessons, has_videos,
                 lessons, zipped_videos, files, extracted, fetches, dl_pos,
                 first_done, count, children>>

\* One pass of the while loop: an exception the except clause does not name.
RequestRaises ==
  /\ RunFrame
  /\ pc = "request"
  /\ attempts' = attempts + 1
  /\ pc' = "crashed"
  /\ error' = "RequestException"
  /\ UNCHANGED <<run, site, retry_count, sleeps, status, mr_result, has_lessons,
                 has_videos, lessons, zipped_videos, files, extracted, fetches,
                 dl_pos, first_done, count, children>>

\* ------------------------------------------------------------------ crawl
\* crawl after download_page returned: page is None, or the page is scraped.
Crawl ==
  /\ RunFrame
  /\ pc = "crawl_page"
  /\ IF mr_result = "None"
       THEN /\ pc' = "download_lessons"
            /\ UNCHANGED <<error, has_lessons, has_videos, lessons, zipped_videos>>
       ELSE IF site.anchors = "no_scorm"
       THEN /\ pc' = "crashed"
            /\ error' = "IndexError:scorm_intro[0]"
            /\ UNCHANGED <<has_lessons, has_videos, lessons, zipped_videos>>
       ELSE /\ has_lessons' = TRUE
            /\ lessons' = DictKeys(site.lesson_items)
            /\ IF site.anchors = "no_course"
                 THEN /\ pc' = "crashed"
                      /\ error' = "IndexError:course_intro[0]"
                      /\ UNCHANGED <<has_videos, zipped_videos>>
                 ELSE /\ has_videos' = TRUE
                      /\ zipped_videos' =
                           DictKeys(SelectNot(site.topic_items, TranscriptNames))
                      /\ pc' = "download_lessons"
                      /\ error' = error
  /\ dl_pos' = 1
  /\ UNCHANGED <<run, site, retry_count, attempts, sleeps, status, mr_result, files,
                 extracted, fetches, first_done, count, children>>

\* ------------------------------------------------------- download_courses
ShouldFetchAlways(name, fs) == TRUE

ShouldFetch(name, fs) == name \notin DOMAIN fs

Put(fs, name, content) ==
  [n \in DOMAIN fs \cup {name} |-> IF n = name THEN content ELSE fs[n]]

\* self.lessons.items() with self.lessons never assigned.
DownloadNoLessons ==
  /\ RunFrame
  /\ pc = "download_lessons"
  /\ ~has_lessons
  /\ pc' = "crashed"
  /\ error' = "AttributeError:self.lessons"
  /\ UNCHANGED <<run, site, retry_count, attempts, sleeps, status, mr_result,
                 has_lessons, has_videos, lessons, zipped_videos, files, extracted,
                 fetches, dl_pos, first_done, count, children>>

\* One pass of either for loop of download_courses over `names`.
DownloadOne(names) ==
  LET name == names[dl_pos] IN
  IF ShouldFetch(name, files)
    THEN \E outcome \in {"complete", "truncated", "no_response"} :
           /\ fetches' = Append(fetches, name)
           /\ files' = IF outcome = "no_response" THEN files
                       ELSE Put(files, name, outcome)
           /\ IF outcome = "complete"
                THEN /\ dl_pos' = dl_pos + 1
                     /\ UNCHANGED <<pc, error>>
                ELSE /\ pc' = "crashed"
                     /\ error' = "RequestException"
                     /\ dl_pos' = dl_pos
    ELSE /\ dl_pos' = dl_pos + 1
         /\ UNCHANGED <<pc, error, files, fetches>>

DownloadLesson ==
  /\ RunFrame
  /\ pc = "download_lessons"
  /\ has_lessons
  /\ dl_pos <= Len(lessons)
  /\ DownloadOne(lessons)
  /\ UNCHANGED <<run, site, retry_count, attempts, sleeps, status, mr_result,
                 has_lessons, has_videos, lessons, zipped_videos, extracted,
                 first_done, count, children>>

\* The first loop is exhausted: on to self.zipped_videos.items().
DownloadLessonsDone ==
  /\ RunFrame
  /\ pc = "download_lessons"
  /\ has_lessons
  /\ dl_pos > Len(lessons)
  /\ IF has_videos
       THEN /\ pc' = "download_videos"
            /\ error' = error
       ELSE /\ pc' = "crashed"
            /\ error' = "AttributeError:self.zipped_videos"
  /\ dl_pos' = 1
  /\ UNCHANGED <<run, site, retry_count, attempts, sleeps, status, mr_result,
                 has_lessons, has_videos, lessons, zipped_videos, files, extracted,
                 fetches, first_done, count, children>>

DownloadVideo ==
  /\ RunFrame
  /\ pc = "download_videos"
  /\ dl_pos <= Len(zipped_videos)
  /\ DownloadOne(zipped_videos)
  /\ UNCHANGED <<run, site, retry_count, attempts, sleeps, status, mr_result,
                 has_lessons, has_videos, lessons, zipped_videos, extracted,
                 first_done, count, children>>

\* download_courses returns, pre_run returns, construct_channel starts.
DownloadDone ==
  /\ RunFrame
  /\ pc = "download_videos"
  /\ dl_pos > Len(zipped_videos)
  /\ pc' = "construct"
  /\ first_done' = (first_done \/ run = "first")
  /\ count' = 0
  /\ children' = <<>>
  /\ UNCHANGED <<error, run, site, retry_count, attempts, sleeps, status, mr_result,
                 has_lessons, has_videos, lessons, zipped_videos, files, extracted,
                 fetches, dl_pos>>

\* ------------------------------------------------------ construct_channel
VideoFile(vs, i) == vs[i]

\* One pass of the for loop: get_course(lesson, video_files[count]).
ConstructCourse ==
  /\ RunFrame
  /\ pc = "construct"
  /\ count < Len(lessons)
  /\ LET lesson == lessons[count + 1] IN
     IF count + 1 > Len(zipped_videos)
       THEN /\ pc' = "crashed"
            /\ error' = "IndexError:video_files[count]"
            /\ UNCHANGED <<count, children, extracted>>
       ELSE LET video == VideoFile(zipped_videos, count + 1) IN
            IF files[lesson] = "truncated"
              THEN /\ pc' = "crashed"
                   /\ error' = "BadZipFile"
                   /\ UNCHANGED <<count, children, extracted>>
              ELSE \E manifest_ok \in BOOLEAN, pages_ok \in BOOLEAN :
                     IF ~manifest_ok
                       THEN /\ pc' = "crashed"
                            /\ error' = "get_course"
                            /\ UNCHANGED <<count, children, extracted>>
                       ELSE IF video \notin extracted /\ files[video] = "truncated"
                       THEN /\ pc' = "crashed"
                            /\ error' = "BadZipFile"
                            /\ UNCHANGED <<count, children, extracted>>
                       ELSE /\ extracted' = extracted \cup {video}
                            /\ IF ~pages_ok
                                 THEN /\ pc' = "crashed"
                                      /\ error' = "get_course"
                                      /\ UNCHANGED <<count, children>>
                                 ELSE /\ children' =
                                           Append(children, [kind |-> "course",
                                                             lesson |-> lesson,
                                                             video |-> video])
                                      /\ count' = count + 1
                                      /\ UNCHANGED <<pc, error>>
  /\ UNCHANGED <<run, site, retry_count, attempts, sleeps, status, mr_result,
                 has_lessons, has_videos, lessons, zipped_videos, files, fetches,
                 dl_pos, first_done>>

\* The loop is exhausted: channel.add_child(self.get_teacher_resources()).
ConstructTeacher ==
  /\ RunFrame
  /\ pc = "construct"
  /\ count >= Len(lessons)
  /\ \E teacher_ok \in BOOLEAN :
       IF teacher_ok
         THEN /\ children' = Append(children, [kind |-> "teacher",
                                               lesson |-> "Teacher resources",
                                               video |-> "Teacher resources"])
              /\ pc' = "done"
              /\ error' = error
         ELSE /\ children' = children
              /\ pc' = "crashed"
              /\ error' = "get_teacher_resources"
  /\ UNCHANGED <<run, site, retry_count, attempts, sleeps, status, mr_result,
                 has_lessons, has_videos, lessons, zipped_videos, files, extracted,
                 fetches, dl_pos, first_done, count>>

\* The chef is started again on the same chefdata directory.
Restart ==
  /\ RunFrame
  /\ pc \in {"done", "crashed"}
  /\ run = "first"
  /\ run' = "second"
  /\ pc' = "request"
  /\ error' = "none"
  /\ retry_count' = 0
  /\ attempts' = 0
  /\ sleeps' = <<>>
  /\ status' = 0
  /\ mr_result' = "pending"
  /\ has_lessons' = FALSE
  /\ has_videos' = FALSE
  /\ lessons' = <<>>
  /\ zipped_videos' = <<>>
  /\ fetches' = <<>>
  /\ dl_pos' = 1
  /\ count' = 0
  /\ children' = <<>>
  /\ UNCHANGED <<site, files, extracted, first_done>>

\* -------------------------------------------------- get_teacher_resources
\* Base names stand for the strings they are: 1 < 2 < 3 is their sorted order.
BaseNames == {1, 2, 3}

RECURSIVE Insert(_, _)
Insert(s, x) ==
  IF s = <<>> THEN <<x>>
  ELSE IF x <= s[1] THEN <<x>> \o s
       ELSE <<s[1]>> \o Insert(Tail(s), x)

RECURSIVE Sorted(_)
\* sorted(pdf_files)
Sorted(s) == IF s = <<>> THEN <<>> ELSE Insert(Sorted(Tail(s)), s[1])

AppendsAfterConvert(existed, exists_now) == exists_now

\* Whether the walk appends pdf_file_path: the elif branch, reached only when
\* the PDF existed as the file was examined.
AppendsPdf(existed, exists_now) == existed /\ exists_now

\* The directory test and the extractall before the walk.
TeacherStart ==
  /\ TeacherFrame
  /\ t_pc = "start"
  /\ \E dir_exists \in BOOLEAN, zip_ok \in BOOLEAN :
       t_pc' = IF dir_exists \/ zip_ok THEN "walk" ELSE "crashed"
  /\ t_pos' = 1
  /\ t_pdf_files' = <<>>
  /\ UNCHANGED <<t_call, t_dir, t_pdfs, t_start_pdfs, t_converted, t_nodes>>

\* One file of the walk: convert it, or append its PDF.
TeacherExamine ==
  /\ TeacherFrame
  /\ t_pc = "walk"
  /\ t_pos <= Len(t_dir)
  /\ LET base == t_dir[t_pos]
         existed == base \in t_pdfs
     IN IF ~existed
          THEN \E outcome \in {"converted", "not_converted", "FileNotFoundError"} :
                 IF outcome = "FileNotFoundError"
                   THEN /\ t_pc' = "exit"
                        /\ UNCHANGED <<t_pdfs, t_converted, t_pdf_files, t_pos>>
                   ELSE /\ t_pdfs' = IF outcome = "converted"
                                       THEN t_pdfs \cup {base} ELSE t_pdfs
                        /\ t_converted' = IF outcome = "converted"
                                            THEN t_converted \cup {base}
                                            ELSE t_converted
                        /\ t_pdf_files' = IF AppendsPdf(existed, base \in t_pdfs')
                                            THEN Append(t_pdf_files, base)
                                            ELSE t_pdf_files
                        /\ t_pos' = t_pos + 1
                        /\ t_pc' = t_pc
          ELSE /\ t_pdf_files' = IF AppendsPdf(existed, base \in t_pdfs)
                                   THEN Append(t_pdf_files, base)
                                   ELSE t_pdf_files
               /\ t_pos' = t_pos + 1
               /\ UNCHANGED <<t_pc, t_pdfs, t_converted>>
  /\ UNCHANGED <<t_call, t_dir, t_start_pdfs, t_nodes>>

\* The walk is over: one document node per entry of sorted(pdf_files).
TeacherTopic ==
  /\ TeacherFrame
  /\ t_pc = "walk"
  /\ t_pos > Len(t_dir)
  /\ t_nodes' = Sorted(t_pdf_files)
  /\ t_pc' = "done"
  /\ UNCHANGED <<t_call, t_dir, t_pdfs, t_start_pdfs, t_pos, t_pdf_files,
                 t_converted>>

\* get_teacher_resources is called again, by a later run of the chef.
TeacherAgain ==
  /\ TeacherFrame
  /\ t_pc \in {"done", "exit", "crashed"}
  /\ t_call = "first"
  /\ t_call' = "second"
  /\ t_pc' = "start"
  /\ t_start_pdfs' = t_pdfs
  /\ t_pos' = 1
  /\ t_pdf_files' = <<>>
  /\ t_converted' = {}
  /\ t_nodes' = <<>>
  /\ UNCHANGED <<t_dir, t_pdfs>>

\* ------------------------------------------------- get_course: the manifest
\* The forms the title and the description element of lom/general take.
\*   absent          no such element
\*   empty           <title/>
\*   text            <title>T</title>
\*   other_child     <title><string>T</string></title>
\*   lang_empty      <title><langstring/></title>
\*   lang_attr       <title><langstring xml:lang="en"/></title>
\*   lang_text       <title><langstring>T</langstring></title>
\*   lang_attr_text  <title><langstring xml:lang="en">T</langstring></title>
FieldForms == {"absent", "empty", "text", "other_child", "lang_empty", "lang_attr",
               "lang_text", "lang_attr_text"}

Manifests ==
  [metadata : {TRUE}, general : {"children"}, title : FieldForms,
   description : FieldForms]
  \cup
  [metadata : BOOLEAN, general : {"absent", "no_children"}, title : {"absent"},
   description : {"absent"}]

\* xmltodict's value for a title or description element of the given form.
XmlToDict(form) ==
  CASE form = "empty" -> [is |-> "None"]
    [] form = "text" -> [is |-> "str"]
    [] form = "other_child" -> [is |-> "dict", langstring |-> [is |-> "missing"]]
    [] form = "lang_empty" -> [is |-> "dict", langstring |-> [is |-> "None"]]
    [] form = "lang_attr" ->
         [is |-> "dict", langstring |-> [is |-> "dict", text |-> "None"]]
    [] form = "lang_text" -> [is |-> "dict", langstring |-> [is |-> "str"]]
    [] form = "lang_attr_text" ->
         [is |-> "dict", langstring |-> [is |-> "dict", text |-> "text"]]

\* general[key].get("langstring", {}).get("#text")
LangText(form) ==
  IF form = "absent" THEN [raised |-> "KeyError", value |-> "None"]
  ELSE LET field == XmlToDict(form) IN
    IF field.is # "dict" THEN [raised |-> "AttributeError", value |-> "None"]
    ELSE IF field.langstring.is = "missing" THEN [raised |-> "none", value |-> "None"]
    ELSE IF field.langstring.is # "dict"
      THEN [raised |-> "AttributeError", value |-> "None"]
    ELSE [raised |-> "none", value |-> field.langstring.text]

\* mt.find("lom/general") or etree.Element("general"): an element without
\* children is false, and the element made in its place has none either.
GeneralSection(m) == IF m.general = "children" THEN "children" ELSE "no_children"

\* The manifest step, from etree.parse to the TopicNode.
ReadManifest(m) ==
  IF ~m.metadata THEN [raised |-> "AttributeError", title |-> "None", desc |-> "None"]
  ELSE IF GeneralSection(m) = "no_children"
    THEN [raised |-> "TypeError", title |-> "None", desc |-> "None"]
  ELSE LET t == LangText(m.title)
           d == LangText(m.description)
       IN IF t.raised # "none"
            THEN [raised |-> t.raised, title |-> "None", desc |-> "None"]
          ELSE IF d.raised # "none"
            THEN [raised |-> d.raised, title |-> "None", desc |-> "None"]
          ELSE IF t.value = "None"
            THEN [raised |-> "AttributeError", title |-> "None", desc |-> "None"]
          ELSE [raised |-> "none", title |-> t.value, desc |-> d.value]

ManifestStep ==
  /\ ManifestFrame
  /\ m_pc = "read"
  /\ LET r == ReadManifest(m_manifest) IN
       /\ m_error' = r.raised
       /\ m_pc' = IF r.raised = "none" THEN "built" ELSE "raised"
       /\ m_topic' = [title |-> r.title, description |-> r.desc]
  /\ UNCHANGED m_manifest

\* ------------------------------------------------ get_quiz_from_objective
ChoiceTexts == {"A", "B"}

Choices == [text : ChoiceTexts, correct : BOOLEAN]

\* The question elements that hold n - 1 choice elements.
QuestionsOfSize(n) ==
  [type : {"choice"}, prompt : BOOLEAN, choices : [1..(n - 1) -> Choices]]
  \cup [type : {"text"}, prompt : {TRUE}, choices : [1..(n - 1) -> Choices]]

RECURSIVE QuestionSeqs(_)
\* The lists of question elements that hold at most b elements in all.
QuestionSeqs(b) ==
  {<<>>} \cup
  UNION {{<<q>> \o rest : q \in QuestionsOfSize(n), rest \in QuestionSeqs(b - n)} :
           n \in 1..b}

Texts(choices) == [i \in 1..Len(choices) |-> choices[i].text]

RECURSIVE CorrectTexts(_)
\* [c.text for c in item.findall("choice") if c.get("correct")]
CorrectTexts(choices) ==
  IF choices = <<>> THEN <<>>
  ELSE IF choices[1].correct THEN <<choices[1].text>> \o CorrectTexts(Tail(choices))
       ELSE CorrectTexts(Tail(choices))

PickLast(found) == found[Len(found)]

\* The [0] of the list of correct texts.
PickCorrect(found) == found[1]

RECURSIVE QuizFrom(_, _)
\* The for loop over the questions from the i-th on: the exercises appended, or
\* the IndexError of a choice question without a correct choice.
QuizFrom(questions, i) ==
  IF i > Len(questions) THEN [raised |-> FALSE, exercises |-> <<>>]
  ELSE LET item == questions[i] IN
    IF item.type = "choice" /\ item.prompt
      THEN LET found == CorrectTexts(item.choices) IN
        IF found = <<>> THEN [raised |-> TRUE, exercises |-> <<>>]
        ELSE LET rest == QuizFrom(questions, i + 1) IN
          IF rest.raised THEN rest
          ELSE [raised |-> FALSE,
                exercises |-> <<[id |-> i,
                                 all_answers |-> Texts(item.choices),
                                 correct_answer |-> PickCorrect(found)]>>
                              \o rest.exercises]
      ELSE QuizFrom(questions, i + 1)

get_quiz_from_objective(questions) == QuizFrom(questions, 1)

QuizCall ==
  /\ QuizFrame
  /\ q_pc = "call"
  /\ LET r == get_quiz_from_objective(q_questions) IN
       /\ q_pc' = IF r.raised THEN "raised" ELSE "returned"
       /\ q_exercises' = r.exercises
  /\ UNCHANGED q_questions

\* --------------------------------------------- get_course: the pages walk
discarded == {"Homepage", "Print your certificate"}

Level0Names == discarded \cup {"Security"}

GroupName == "Stay safe"

ObjectiveIds == {1, 2}

RECURSIVE QuizSize(_)
QuizSize(questions) ==
  IF questions = <<>> THEN 0
  ELSE 1 + Len(questions[1].choices) + QuizSize(Tail(questions))

\* The objective elements that hold n - 1 question and choice elements.
ObjectivesOfSize(n) ==
  {[id |-> i, questions |-> qs] :
     i \in ObjectiveIds,
     qs \in {q \in QuestionSeqs(n - 1) : QuizSize(q) = n - 1}}

RECURSIVE ObjectiveSeqs(_)
\* The lists of objective elements that hold at most b elements in all.
ObjectiveSeqs(b) ==
  {<<>>} \cup
  UNION {{<<o>> \o rest : o \in ObjectivesOfSize(n), rest \in ObjectiveSeqs(b - n)} :
           n \in 1..b}

RECURSIVE ObjectivesSize(_)
ObjectivesSize(objectives) ==
  IF objectives = <<>> THEN 0
  ELSE 1 + QuizSize(objectives[1].questions) + ObjectivesSize(Tail(objectives))

\* Paths and file name fragments are lists of path segments.
Mp4Lists ==
  {<<>>,
   <<<<"Videos", "A", "intro.mp4">>, <<"Videos", "B", "tail.mp4">>,
     <<"Videos", "A", "tail.mp4">>>>}

Fragments == {<<"tail.mp4">>, <<"gone.mp4">>}

VideoChildren ==
  [tag : {"video"}, fileName : Fragments]
  \cup [tag : {"image"}, fileName : {<<"tail.mp4">>}]

\* v.endswith(fragment)
EndsWith(path, fragment) ==
  /\ Len(fragment) <= Len(path)
  /\ SubSeq(path, Len(path) - Len(fragment) + 1, Len(path)) = fragment

RECURSIVE Matching(_, _)
\* [v for v in list_of_mp4s if v.endswith(video.get("fileName"))]
Matching(mp4s, fragment) ==
  IF mp4s = <<>> THEN <<>>
  ELSE IF EndsWith(mp4s[1], fragment)
    THEN <<mp4s[1]>> \o Matching(Tail(mp4s), fragment)
    ELSE Matching(Tail(mp4s), fragment)

VideoTitleOneBased(name, idx) ==
  IF idx = 0 THEN <<name>> ELSE <<name, "-", idx + 1, " part">>

\* level1.get("name") if idx == 0 else "{}-{} part".format(level1.get("name"), idx)
VideoTitle(name, idx) == IF idx = 0 THEN <<name>> ELSE <<name, "-", idx, " part">>

RECURSIVE VideoNodes(_, _, _, _)
\* The for loop over enumerate(videos), from the child at index idx on: the
\* video nodes added to the subtopic.
VideoNodes(name, videos, mp4s, idx) ==
  IF idx >= Len(videos) THEN <<>>
  ELSE LET video == videos[idx + 1]
           video_file_name == Matching(mp4s, video.fileName)
           rest == VideoNodes(name, videos, mp4s, idx + 1)
       IN IF video.tag = "video" /\ Len(video_file_name) # 0
            THEN <<[kind |-> "video",
                    title |-> VideoTitle(name, idx),
                    file |-> video_file_name[1]]>> \o rest
            ELSE rest

RECURSIVE WithId(_, _)
\* [o for o in objectives if o.get("id") == idx]
WithId(objectives, idx) ==
  IF objectives = <<>> THEN <<>>
  ELSE IF objectives[1].id = idx
    THEN <<objectives[1]>> \o WithId(Tail(objectives), idx)
    ELSE WithId(Tail(objectives), idx)

NoExercise == [kind |-> "exercise", title |-> <<"Knowledge check: ", 0>>,
               questions |-> <<>>]

get_exercise_node_or_empty(idx, objectives) ==
  LET found == WithId(objectives, idx) IN
  IF found = <<>> THEN [raised |-> FALSE, node |-> NoExercise]
  ELSE LET quiz == get_quiz_from_objective(found[1].questions) IN
    IF quiz.raised THEN [raised |-> TRUE, node |-> NoExercise]
    ELSE [raised |-> FALSE,
          node |-> [kind |-> "exercise",
                    title |-> <<"Knowledge check: ", found[1].id>>,
                    questions |-> quiz.exercises]]

\* The ExerciseNode of the first objective with the id, or the IndexError of
\* the lookup or of get_quiz_from_objective.
get_exercise_node(idx, objectives) ==
  LET found == WithId(objectives, idx) IN
  IF found = <<>> THEN [raised |-> TRUE, node |-> NoExercise]
  ELSE LET quiz == get_quiz_from_objective(found[1].questions) IN
    IF quiz.raised THEN [raised |-> TRUE, node |-> NoExercise]
    ELSE [raised |-> FALSE,
          node |-> [kind |-> "exercise",
                    title |-> <<"Knowledge check: ", found[1].id>>,
                    questions |-> quiz.exercises]]

SubtopicForOneChild(name, n) == name \notin discarded /\ ~(n < 1)

\* Whether the loop body goes on to make a subtopic of a level0 with n children.
SubtopicFor(name, n) == name \notin discarded /\ ~(n <= 1)

AddChild(subtopics, nodes) ==
  [subtopics EXCEPT ![Len(subtopics)].children = @ \o nodes]

NoLevel1 == [kind |-> "none", ref |-> 0, videos |-> <<>>, base |-> 0]

\* The head of the loop over level0_elements, up to topic.add_child(sub_topic).
EnterLevel0 ==
  /\ CourseFrame
  /\ c_pc = "level0"
  /\ c_budget >= 1
  /\ \E name \in Level0Names, n \in 0..(c_budget - 1), described \in BOOLEAN :
       /\ n = 0 => described
       /\ c_doc' = Append(c_doc, [name |-> name, children |-> n])
       /\ c_budget' = c_budget - 1 - n
       /\ IF ~SubtopicFor(name, n)
            THEN UNCHANGED <<c_pc, c_error, c_subtopics, c_left>>
          ELSE IF ~described
            THEN /\ c_pc' = "raised"
                 /\ c_error' = "IndexError:getchildren()[0]"
                 /\ UNCHANGED <<c_subtopics, c_left>>
          ELSE /\ c_subtopics' = Append(c_subtopics,
                                        [title |-> name, src |-> Len(c_doc) + 1,
                                         children |-> <<>>])
               /\ c_left' = n - 1
               /\ c_pc' = IF n - 1 > 0 THEN "level1" ELSE "level0"
               /\ c_error' = c_error
  /\ c_last' = NoLevel1
  /\ UNCHANGED <<c_objectives, c_mp4s>>

\* A level1 named "Knowledge check".
KnowledgeCheck ==
  /\ CourseFrame
  /\ c_pc = "level1"
  /\ \E ref \in ObjectiveIds :
       LET r == get_exercise_node(ref, c_objectives) IN
       /\ c_last' = [kind |-> "check", ref |-> ref, videos |-> <<>>,
                     base |-> Len(c_subtopics[Len(c_subtopics)].children)]
       /\ IF r.raised
            THEN /\ c_pc' = "raised"
                 /\ c_error' = "IndexError"
                 /\ UNCHANGED <<c_subtopics, c_left>>
            ELSE /\ c_subtopics' = AddChild(c_subtopics, <<r.node>>)
                 /\ c_left' = c_left - 1
                 /\ c_pc' = IF c_left - 1 > 0 THEN "level1" ELSE "level0"
                 /\ c_error' = c_error
  /\ UNCHANGED <<c_objectives, c_mp4s, c_budget, c_doc>>

\* A level1 of another name: its children, the videos among them.
VideoGroup ==
  /\ CourseFrame
  /\ c_pc = "level1"
  /\ \E videos \in SeqsUpTo(VideoChildren, c_budget) :
       /\ c_last' = [kind |-> "group", ref |-> 0, videos |-> videos,
                     base |-> Len(c_subtopics[Len(c_subtopics)].children)]
       /\ c_budget' = c_budget - Len(videos)
       /\ c_subtopics' =
            AddChild(c_subtopics, VideoNodes(GroupName, videos, c_mp4s, 0))
  /\ c_left' = c_left - 1
  /\ c_pc' = IF c_left - 1 > 0 THEN "level1" ELSE "level0"
  /\ UNCHANGED <<c_error, c_objectives, c_mp4s, c_doc>>

\* level0_elements is exhausted: return topic.
ReturnTopic ==
  /\ CourseFrame
  /\ c_pc = "level0"
  /\ c_pc' = "done"
  /\ UNCHANGED <<c_error, c_objectives, c_mp4s, c_budget, c_doc, c_subtopics,
                 c_left, c_last>>

RunInit ==
  /\ pc = "request"
  /\ error = "none"
  /\ run = "first"
  /\ site \in Sites
  /\ retry_count = 0
  /\ attempts = 0
  /\ sleeps = <<>>
  /\ status = 0
  /\ mr_result = "pending"
  /\ has_lessons = FALSE
  /\ has_videos = FALSE
  /\ lessons = <<>>
  /\ zipped_videos = <<>>
  /\ files = <<>>
  /\ extracted = {}
  /\ fetches = <<>>
  /\ dl_pos = 1
  /\ first_done = FALSE
  /\ count = 0
  /\ children = <<>>

RunIdle ==
  /\ pc = "idle"
  /\ error = "none"
  /\ run = "first"
  /\ site = [anchors |-> "both", lesson_items |-> <<>>, topic_items |-> <<>>]
  /\ retry_count = 0
  /\ attempts = 0
  /\ sleeps = <<>>
  /\ status = 0
  /\ mr_result = "pending"
  /\ has_lessons = FALSE
  /\ has_videos = FALSE
  /\ lessons = <<>>
  /\ zipped_videos = <<>>
  /\ files = <<>>
  /\ extracted = {}
  /\ fetches = <<>>
  /\ dl_pos = 1
  /\ first_done = FALSE
  /\ count = 0
  /\ children = <<>>

TeacherInit ==
  /\ t_pc = "start"
  /\ t_call = "first"
  /\ t_dir \in SeqsUpTo(BaseNames, MaxResources)
  /\ t_pdfs \in SUBSET BaseNames
  /\ t_start_pdfs = t_pdfs
  /\ t_pos = 1
  /\ t_pdf_files = <<>>
  /\ t_converted = {}
  /\ t_nodes = <<>>

TeacherIdle ==
  /\ t_pc = "idle"
  /\ t_call = "first"
  /\ t_dir = <<>>
  /\ t_pdfs = {}
  /\ t_start_pdfs = {}
  /\ t_pos = 1
  /\ t_pdf_files = <<>>
  /\ t_converted = {}
  /\ t_nodes = <<>>

ManifestInit ==
  /\ m_pc = "read"
  /\ m_manifest \in Manifests
  /\ m_error = "none"
  /\ m_topic = [title |-> "None", description |-> "None"]

ManifestIdle ==
  /\ m_pc = "idle"
  /\ m_manifest = [metadata |-> TRUE, general |-> "absent", title |-> "absent",
                   description |-> "absent"]
  /\ m_error = "none"
  /\ m_topic = [title |-> "None", description |-> "None"]

QuizInit ==
  /\ q_pc = "call"
  /\ q_questions \in QuestionSeqs(MaxQuizSize)
  /\ q_exercises = <<>>

QuizIdle ==
  /\ q_pc = "idle"
  /\ q_questions = <<>>
  /\ q_exercises = <<>>

CourseInit ==
  /\ c_pc = "level0"
  /\ c_error = "none"
  /\ c_objectives \in ObjectiveSeqs(MaxElements - 3)
  /\ c_mp4s \in Mp4Lists
  /\ c_budget = MaxElements - ObjectivesSize(c_objectives)
  /\ c_doc = <<>>
  /\ c_subtopics = <<>>
  /\ c_left = 0
  /\ c_last = NoLevel1

CourseIdle ==
  /\ c_pc = "idle"
  /\ c_error = "none"
  /\ c_objectives = <<>>
  /\ c_mp4s = <<>>
  /\ c_budget = 0
  /\ c_doc = <<>>
  /\ c_subtopics = <<>>
  /\ c_left = 0
  /\ c_last = NoLevel1

Init == RunInit /\ TeacherIdle /\ ManifestIdle /\ QuizIdle /\ CourseIdle

Next ==
  \/ RequestError
  \/ RequestResponse
  \/ RequestRaises
  \/ Crawl
  \/ DownloadNoLessons
  \/ DownloadLesson
  \/ DownloadLessonsDone
  \/ DownloadVideo
  \/ DownloadDone
  \/ ConstructCourse
  \/ ConstructTeacher
  \/ Restart

Spec == Init /\ [][Next]_vars

InitTeacher == RunIdle /\ TeacherInit /\ ManifestIdle /\ QuizIdle /\ CourseIdle

NextTeacher ==
  \/ TeacherStart
  \/ TeacherExamine
  \/ TeacherTopic
  \/ TeacherAgain

SpecTeacher == InitTeacher /\ [][NextTeacher]_vars

InitManifest == RunIdle /\ TeacherIdle /\ ManifestInit /\ QuizIdle /\ CourseIdle

NextManifest == ManifestStep

SpecManifest == InitManifest /\ [][NextManifest]_vars

InitQuiz == RunIdle /\ TeacherIdle /\ ManifestIdle /\ QuizInit /\ CourseIdle

NextQuiz == QuizCall

SpecQuiz == InitQuiz /\ [][NextQuiz]_vars

InitCourse == RunIdle /\ TeacherIdle /\ ManifestIdle /\ QuizIdle /\ CourseInit

NextCourse ==
  \/ EnterLevel0
  \/ KnowledgeCheck
  \/ VideoGroup
  \/ ReturnTopic

SpecCourse == InitCourse /\ [][NextCourse]_vars

\* ================================================================= claims

\* ---- C6 (as claimed): when the fetch of the course index page fails
\* (make_request returned None), crawl logs and returns and no later step of the
\* run raises an exception.
C6_CrawlFailureIsSkipped == mr_result = "None" => error = "none"

\* ---- C7: make_request issues at most max_retries requests; after the k-th
\* failure it has slept 1, 2, ..., k seconds; the failure that makes retry_count
\* reach max_retries returns None; a response is returned only for status 200,
\* and None only after max_retries failures or a status other than 200.
C7_RequestBounded ==
  /\ attempts <= max_retries
  /\ retry_count <= attempts
  /\ sleeps = [k \in 1..retry_count |-> k]
  /\ (pc = "request" => retry_count < max_retries /\ mr_result = "pending")
  /\ (retry_count >= max_retries => mr_result = "None")
  /\ (mr_result = "response" => status = 200)
  /\ (mr_result = "None" =>
        \/ retry_count = max_retries /\ status = 0
        \/ status \notin {0, 200})

C7_Witness ==
  /\ mr_result = "None"
  /\ attempts = max_retries
  /\ sleeps = <<1, 2, 3, 4, 5>>

\* ---- C8: download_courses fetches a name only when chefdata/<name>.zip is not
\* there, it never changes or removes a file that is there (complete or
\* truncated), and a process started after one whose download_courses completed
\* fetches nothing.
C8_FetchOnlyMissing ==
  /\ [][/\ (fetches' # fetches /\ run' = run) =>
             /\ Len(fetches') = Len(fetches) + 1
             /\ fetches'[Len(fetches')] \notin DOMAIN files
        /\ \A n \in DOMAIN files : n \in DOMAIN files' /\ files'[n] = files[n]]_vars
  /\ [](run = "second" /\ first_done => fetches = <<>>)

C8_Witness ==
  /\ run = "second"
  /\ first_done
  /\ pc = "construct"
  /\ Len(lessons) + Len(zipped_videos) >= 3
  /\ fetches = <<>>

\* ---- C9 (as claimed): for every crawl result construct_channel completes, and
\* the channel's children are one course topic per lesson, in order, the i-th
\* built from the i-th video archive, and then the Teacher resources topic.
C9_ChannelPerLesson ==
  /\ error # "IndexError:video_files[count]"
  /\ pc = "done" =>
       children = [i \in 1..Len(lessons) |->
                     [kind |-> "course", lesson |-> lessons[i],
                      video |-> zipped_videos[i]]]
                  \o <<[kind |-> "teacher", lesson |-> "Teacher resources",
                        video |-> "Teacher resources"]>>

\* ---- C10: the walk appends a PDF only when it was on disk as its file was
\* examined; and when the resource files have pairwise distinct base names, no
\* file converted in a call has a node in that call, the nodes of a call are the
\* files whose PDF was there when the call started, in sorted order, so a first
\* call on a disk without PDFs returns no node.
DistinctBaseNames == \A i, j \in 1..Len(t_dir) : t_dir[i] = t_dir[j] => i = j

C10_NodesOnlyForEarlierPdfs ==
  /\ [][(t_pdf_files' # t_pdf_files /\ t_call' = t_call /\ t_pc = "walk") =>
          /\ t_dir[t_pos] \in t_pdfs
          /\ t_pdf_files' = Append(t_pdf_files, t_dir[t_pos])]_vars
  /\ [](DistinctBaseNames =>
          /\ Range(t_pdf_files) \cap t_converted = {}
          /\ t_pc = "done" =>
               /\ Range(t_nodes) = Range(t_dir) \cap t_start_pdfs
               /\ \A i, j \in 1..Len(t_nodes) : i < j => t_nodes[i] < t_nodes[j]
               /\ (t_start_pdfs = {} => t_nodes = <<>>))

C10_Witness ==
  /\ t_call = "second"
  /\ t_pc = "done"
  /\ DistinctBaseNames
  /\ t_nodes = <<1, 3>>
  /\ t_converted = {2}

\* The j-th smallest member of a set of numbers.
Nth(S, j) == CHOOSE x \in S : Cardinality({y \in S : y < x}) = j - 1

\* ---- C1 (as claimed): for every pages document the subtopics get_course
\* attaches are exactly, in document order, the level0 elements whose name is
\* not discarded and which have at least 2 children.
Qualifying ==
  {i \in 1..Len(c_doc) : c_doc[i].name \notin {"Homepage", "Print your certificate"}
                         /\ c_doc[i].children >= 2}

SubtopicsInOrder ==
  /\ \A j \in 1..Len(c_subtopics) :
       /\ c_subtopics[j].src \in Qualifying
       /\ c_subtopics[j].title = c_doc[c_subtopics[j].src].name
  /\ \A j, k \in 1..Len(c_subtopics) :
       j < k => c_subtopics[j].src < c_subtopics[k].src

SubtopicSources == {c_subtopics[j].src : j \in 1..Len(c_subtopics)}

C1_SubtopicsAreQualifying ==
  c_pc \in {"done", "raised"} => SubtopicsInOrder /\ SubtopicSources = Qualifying

\* ---- C1 (amended): while get_course has not raised, and so when it returns,
\* the subtopics are exactly, in document order, the level0 elements read whose
\* name is not discarded and which have at least 2 children; when it raises,
\* the subtopics attached are a leading part of them.
C1_SubtopicsUnlessRaised ==
  /\ SubtopicsInOrder
  /\ c_pc # "raised" => SubtopicSources = Qualifying
  /\ \A i \in Qualifying \ SubtopicSources : \A s \in SubtopicSources : s < i

C1_Witness ==
  /\ c_pc = "done"
  /\ Len(c_doc) = 3
  /\ c_doc[1] = [name |-> "Homepage", children |-> 2]
  /\ c_doc[2] = [name |-> "Security", children |-> 0]
  /\ c_doc[3] = [name |-> "Security", children |-> 2]
  /\ Len(c_subtopics) = 1
  /\ c_subtopics[1].src = 3

\* The nodes the level1 handled last added to its subtopic.
Added ==
  LET kids == c_subtopics[Len(c_subtopics)].children
  IN SubSeq(kids, c_last.base + 1, Len(kids))

\* ---- C2 (as claimed): the first video node of a group is titled with the
\* group's name and the j-th node after it "<name>-<j> part".
C2_TitlesCountNodes ==
  c_last.kind = "group" =>
    \A j \in 1..Len(Added) :
      Added[j].title = IF j = 1 THEN <<GroupName>>
                       ELSE <<GroupName, "-", j - 1, " part">>

\* The zero-based places, among all the children of the group handled last, of
\* the video elements that match a file.
MatchedPlaces ==
  {i \in 0..(Len(c_last.videos) - 1) :
     /\ c_last.videos[i + 1].tag = "video"
     /\ \E k \in 1..Len(c_mp4s) : EndsWith(c_mp4s[k], c_last.videos[i + 1].fileName)}

\* ---- C2 (amended): a group adds one video node per video child that matches
\* a file, in order; the node of the child at place 0 among all the children of
\* the group is titled with the group's name, and the node of the child at place
\* n > 0 is titled "<name>-<n> part".
C2_TitlesCountChildren ==
  c_last.kind = "group" =>
    /\ Len(Added) = Cardinality(MatchedPlaces)
    /\ \A j \in 1..Len(Added) :
         LET n == Nth(MatchedPlaces, j) IN
         Added[j].title = IF n = 0 THEN <<GroupName>>
                          ELSE <<GroupName, "-", n, " part">>

C2_Witness ==
  /\ c_last.kind = "group"
  /\ Len(c_last.videos) = 3
  /\ MatchedPlaces = {1, 2}
  /\ Len(Added) = 2
  /\ Added[2].title = <<GroupName, "-", 2, " part">>

\* Every choice question holds a choice flagged correct.
AllChoiceQuestionsAnswered ==
  \A i \in 1..Len(q_questions) :
    q_questions[i].type = "choice" =>
      \E k \in 1..Len(q_questions[i].choices) : q_questions[i].choices[k].correct

\* The exercises are the questions at the places in Idx, in order, each with all
\* its choice texts and the text of its first choice flagged correct.
ExercisesAre(Idx) ==
  /\ Len(q_exercises) = Cardinality(Idx)
  /\ \A j \in 1..Len(q_exercises) :
       LET i == Nth(Idx, j)
           choices == q_questions[i].choices
           first == Nth({k \in 1..Len(choices) : choices[k].correct}, 1)
       IN /\ q_exercises[j].id = i
          /\ q_exercises[j].all_answers = [k \in 1..Len(choices) |-> choices[k].text]
          /\ q_exercises[j].correct_answer = choices[first].text

\* ---- C3 (as claimed): when every choice question has a correct choice, the
\* list returned holds one question per question of type "choice".
C3_OnePerChoiceQuestion ==
  (q_pc \in {"returned", "raised"} /\ AllChoiceQuestionsAnswered) =>
    /\ q_pc = "returned"
    /\ ExercisesAre({i \in 1..Len(q_questions) : q_questions[i].type = "choice"})

\* ---- C3 (amended): when every choice question has a correct choice, the list
\* returned holds one question per question of type "choice" that has a prompt,
\* in document order, each with all its choice texts as answers and the text of
\* its first choice flagged correct as the correct answer; a choice question
\* without a prompt contributes nothing, like a question of another type.
C3_OnePerPromptedChoiceQuestion ==
  (q_pc \in {"returned", "raised"} /\ AllChoiceQuestionsAnswered) =>
    /\ q_pc = "returned"
    /\ ExercisesAre({i \in 1..Len(q_questions) :
                       q_questions[i].type = "choice" /\ q_questions[i].prompt})

C3_Witness ==
  /\ q_pc = "returned"
  /\ Len(q_questions) = 2
  /\ q_questions[1].type = "choice"
  /\ q_questions[1].prompt
  /\ q_questions[1].choices = <<[text |-> "B", correct |-> TRUE],
                                [text |-> "A", correct |-> TRUE]>>
  /\ q_questions[2].type = "choice"
  /\ ~q_questions[2].prompt
  /\ Len(q_exercises) = 1
  /\ q_exercises[1].correct_answer = "B"

\* The places of the objectives with the id the knowledge check names.
Referenced == {k \in 1..Len(c_objectives) : c_objectives[k].id = c_last.ref}

Resolved == c_objectives[Nth(Referenced, 1)]

Unanswered(q) ==
  q.type = "choice" /\ \A k \in 1..Len(q.choices) : ~q.choices[k].correct

\* ---- C4 (as claimed): a knowledge check whose reference matches no objective,
\* or whose objective holds a choice question with no correct choice, aborts
\* get_course.
C4_BadCheckAborts ==
  (/\ c_last.kind = "check"
   /\ \/ Referenced = {}
      \/ \E i \in 1..Len(Resolved.questions) : Unanswered(Resolved.questions[i]))
  => c_pc = "raised"

\* ---- C4 (amended): a knowledge check whose reference matches no objective, or
\* whose objective (the first with that id) holds a choice question that has a
\* prompt and no correct choice, aborts get_course with an IndexError; the step
\* that raises attaches nothing, and nothing follows it: no topic is returned.
C4_BadPromptedCheckAborts ==
  /\ []((/\ c_last.kind = "check"
         /\ \/ Referenced = {}
            \/ \E i \in 1..Len(Resolved.questions) :
                 /\ Unanswered(Resolved.questions[i])
                 /\ Resolved.questions[i].prompt)
        => c_pc = "raised" /\ c_error = "IndexError")
  /\ [][c_pc' = "raised" => c_subtopics' = c_subtopics]_vars
  /\ [][c_pc = "raised" => c_pc' = "raised"]_vars

C4_Witness ==
  /\ c_last.kind = "check"
  /\ c_pc = "raised"
  /\ Referenced # {}
  /\ Len(Resolved.questions) = 2
  /\ ~Unanswered(Resolved.questions[1])
  /\ Unanswered(Resolved.questions[2])

\* ---- C5 (as claimed): for a manifest whose metadata lacks the general section,
\* its title or its description, and whose title and description are
\* language-tagged texts where it has them, the manifest step raises nothing and
\* the topic node is built.
C5_MissingMetadataDegrades ==
  (/\ m_pc \in {"built", "raised"}
   /\ m_manifest.metadata
   /\ m_manifest.title \in {"absent", "lang_attr_text"}
   /\ m_manifest.description \in {"absent", "lang_attr_text"}
   /\ \/ m_manifest.general # "children"
      \/ m_manifest.title = "absent"
      \/ m_manifest.description = "absent")
  => m_pc = "built"

====
